---- MODULE Spec2Model ----
(***************************************************************************)
(* caterwaul-regexp: the regular expression parser of src/regexp.js and    *)
(* the methods of the trees it returns.                                    *)
(*                                                                         *)
(* Text is a sequence of one-character strings.  A cursor p is the 0-based *)
(* offset p.i of the source; a parser result is [ok, v, i, h]: ok is the   *)
(* truthiness of the result, v and i its fields, and h the heap after the  *)
(* call: the group registry context.groups and the next object identity.   *)
(* The registry is a mutable array, so h is threaded through every call,   *)
(* failed ones included.                                                   *)
(***************************************************************************)
EXTENDS Integers, Sequences, FiniteSets

VARIABLES r, options, pc, result, query

vars == <<r, options, pc, result, query>>

(***************************************************************************)
(* Javascript values                                                       *)
(***************************************************************************)
Min(a, b) == IF a < b THEN a ELSE b

\* the element of a singleton set: {F(x) : x \in {v}} evaluates v once
One(set) == CHOOSE x \in set : TRUE

RECURSIVE DigitsOf(_)
\* String(n) of a non-negative integer
DigitsOf(n) ==
  LET d == <<"0", "1", "2", "3", "4", "5", "6", "7", "8", "9">>
  IN IF n < 10 THEN <<d[n + 1]>> ELSE DigitsOf(n \div 10) \o <<d[(n % 10) + 1]>>

DigitValue(c) ==
  CASE c = "0" -> 0 [] c = "1" -> 1 [] c = "2" -> 2 [] c = "3" -> 3 [] c = "4" -> 4
    [] c = "5" -> 5 [] c = "6" -> 6 [] c = "7" -> 7 [] c = "8" -> 8 [] c = "9" -> 9

RECURSIVE ToNumber(_)
\* +text of a text of decimal digits
ToNumber(t) ==
  IF Len(t) = 0 THEN 0
  ELSE 10 * ToNumber(SubSeq(t, 1, Len(t) - 1)) + DigitValue(t[Len(t)])

\* The data of a node: a string or a number, with its String() form in str.
S(t) == [typ |-> "string", str |-> t, num |-> 0]
N(n) == [typ |-> "number", str |-> DigitsOf(n), num |-> n]
Infinity == [typ |-> "number", str |-> <<"I", "n", "f", "i", "n", "i", "t", "y">>, num |-> 0 - 1]

\* The value of a method call: a number, a string, undefined, or a raised error.
Number(n) == [t |-> "number", n |-> n, s |-> <<>>]
String(s) == [t |-> "string", n |-> 0, s |-> s]
UndefinedValue == [t |-> "undefined", n |-> 0, s |-> <<>>]
TypeError == [t |-> "TypeError", n |-> 0, s |-> <<>>]
LimitError == [t |-> "Error", n |-> 0, s |-> <<>>]

\* The value undefined where a node is expected (an absent child).
undefined == [id |-> 0, data |-> S(<<>>), kids |-> <<>>]

(***************************************************************************)
(* The parse context and node construction                                 *)
(***************************************************************************)
NewHeap == [groups |-> <<>>, next |-> 1]

\* new $.regexp.syntax(data, context) with its children pushed; the object
\* gets the identity h.next, and Alloc(h) is the heap after the allocation.
node(data, kids, h) == [id |-> h.next, data |-> data, kids |-> kids]

Alloc(h) == [h EXCEPT !.next = @ + 1]

\* context.groups.unshift(n) in place of push: the node goes to the front
add_group_in_front(n, h) == [h EXCEPT !.groups = <<n>> \o @]

\* context.groups.push(n)
add_group(n, h) == [h EXCEPT !.groups = Append(@, n)]

\* context.groups[k], a 0-based array read
GroupAt(h, k) == IF k < Len(h.groups) THEN h.groups[k + 1] ELSE undefined

(***************************************************************************)
(* The parser combinators on the source text s                             *)
(***************************************************************************)
Hit(v, i) == [ok |-> TRUE, v |-> v, i |-> i]
Miss == [ok |-> FALSE, v |-> <<>>, i |-> 0]

Ok(v, i, h) == [ok |-> TRUE, v |-> v, i |-> i, h |-> h]
No(h) == [ok |-> FALSE, v |-> undefined, i |-> 0, h |-> h]

substr(s, i, n) == SubSeq(s, i + 1, Min(i + n, Len(s)))

char(c, s, i) == IF i < Len(s) /\ s[i + 1] \in c THEN Hit(<<s[i + 1]>>, i + 1) ELSE Miss

string(cs, s, i) ==
  IF i < Len(s) /\ substr(s, i, Len(cs)) = cs THEN Hit(cs, i + Len(cs)) ELSE Miss

\* not(n, char(c))
not_char(n, c, s, i) ==
  IF i >= Len(s) \/ char(c, s, i).ok THEN Miss ELSE Hit(substr(s, i, n), i + n)

any(n, s, i) == IF i < Len(s) THEN Hit(substr(s, i, n), i + n) ELSE Miss

RECURSIVE Run(_, _, _)
\* the end of the longest run of characters of c that starts at i
Run(c, s, i) == IF char(c, s, i).ok THEN Run(c, s, i + 1) ELSE i

\* many(char(c)), its values joined
many_char(c, s, i) ==
  LET j == Run(c, s, i) IN IF j > i THEN Hit(SubSeq(s, i + 1, j), j) ELSE Miss

ident ==
  {"0", "1", "2", "3", "4", "5", "6", "7", "8", "9",
   "A", "B", "C", "D", "E", "F", "G", "H", "I", "J", "K", "L", "M",
   "N", "O", "P", "Q", "R", "S", "T", "U", "V", "W", "X", "Y", "Z",
   "a", "b", "c", "d", "e", "f", "g", "h", "i", "j", "k", "l", "m",
   "n", "o", "p", "q", "r", "s", "t", "u", "v", "w", "x", "y", "z", "_"}

digit == {"0", "1", "2", "3", "4", "5", "6", "7", "8", "9"}

hex ==
  {"0", "1", "2", "3", "4", "5", "6", "7", "8", "9",
   "A", "B", "C", "D", "E", "F", "a", "b", "c", "d", "e", "f"}

\* number: many(digit) mapped to the number its digits spell
number(s, i) ==
  LET m == many_char(digit, s, i) IN IF m.ok THEN Hit(ToNumber(m.v), m.i) ELSE Miss

end(s, i) == i = Len(s)

(***************************************************************************)
(* The grammar.  e is the environment of one regexp_parse call: e.s the    *)
(* source text and e.atom the 'atom' setting.                              *)
(***************************************************************************)
RECURSIVE toplevel(_, _, _)
RECURSIVE no_pipes(_, _, _)
RECURSIVE character_class(_, _, _)

\* node(tag, node(a), node(b)): the arguments are constructed first
node_of_two(tag, a, b, h) ==
  node(S(<<tag>>), <<node(a, <<>>, h), node(b, <<>>, Alloc(h))>>, Alloc(Alloc(h)))

star(e, i, h) ==
  LET c == char({"*"}, e.s, i)
  IN IF c.ok THEN Ok(node(S(c.v), <<>>, h), c.i, Alloc(h)) ELSE No(h)

plus(e, i, h) ==
  LET c == char({"+"}, e.s, i)
  IN IF c.ok THEN Ok(node(S(c.v), <<>>, h), c.i, Alloc(h)) ELSE No(h)

question_mark(e, i, h) ==
  LET c == char({"?"}, e.s, i)
  IN IF c.ok THEN Ok(node(S(c.v), <<>>, h), c.i, Alloc(h)) ELSE No(h)

repetition(e, i, h) ==
  LET open   == char({"{"}, e.s, i)
      lo     == number(e.s, open.i)
      close1 == char({"}"}, e.s, lo.i)
      comma  == char({","}, e.s, lo.i)
      close2 == char({"}"}, e.s, comma.i)
      hi     == number(e.s, comma.i)
      close3 == char({"}"}, e.s, hi.i)
      h3     == Alloc(Alloc(Alloc(h)))
  IN IF ~(open.ok /\ lo.ok) THEN No(h)
     ELSE IF close1.ok THEN Ok(node_of_two("{", N(lo.v), N(lo.v), h), close1.i, h3)
     ELSE IF ~comma.ok THEN No(h)
     ELSE IF close2.ok THEN Ok(node_of_two("{", N(lo.v), Infinity, h), close2.i, h3)
     ELSE IF hi.ok /\ close3.ok THEN Ok(node_of_two("{", N(lo.v), N(hi.v), h), close3.i, h3)
     ELSE No(h)

\* modifier that takes the question mark too, so that it may be non-greedy
modifier_with_question_mark(e, i, h) ==
  One({IF a.ok THEN a
       ELSE One({IF b.ok THEN b
                 ELSE One({IF c.ok THEN c ELSE question_mark(e, i, h)
                           : c \in {repetition(e, i, h)}})
                 : b \in {plus(e, i, h)}})
       : a \in {star(e, i, h)}})

modifier(e, i, h) ==
  One({IF a.ok THEN a
       ELSE One({IF b.ok THEN b ELSE repetition(e, i, h) : b \in {plus(e, i, h)}})
       : a \in {star(e, i, h)}})

non_greedy(e, i) == char({"?"}, e.s, i)

\* map(modifier /-join/ non_greedy, "_[0] -se [it.data += _[1]]") /modifier /~alt/question_mark
modifiers(e, i, h) ==
  One({IF m.ok /\ non_greedy(e, m.i).ok
         THEN Ok([m.v EXCEPT !.data = S(@.str \o <<"?">>)], m.i + 1, m.h)
       ELSE IF m.ok THEN m
       ELSE question_mark(e, i, h)
       : m \in {modifier(e, i, h)}})

\* each: one member of a character class
each(e, i, h) ==
  LET s    == e.s
      a    == any(1, s, i)
      dash == char({"-"}, s, a.i)
      b    == any(1, s, dash.i)
      bs   == char({"\\"}, s, i)
      x    == any(1, s, bs.i)
      o    == not_char(1, {"]"}, s, i)
  IN IF a.ok /\ dash.ok /\ b.ok
       THEN Ok(node_of_two("-", S(a.v), S(b.v), h), b.i, Alloc(Alloc(Alloc(h))))
     ELSE IF bs.ok /\ x.ok THEN Ok(node(S(bs.v \o x.v), <<>>, h), x.i, Alloc(h))
     ELSE IF o.ok THEN Ok(node(S(o.v), <<>>, h), o.i, Alloc(h))
     ELSE No(h)

character_class(e, i, h) ==
  One({IF ~x.ok THEN x
       ELSE One({IF rest.ok
                   THEN Ok(node(S(<<",">>), <<x.v, rest.v>>, rest.h), rest.i, Alloc(rest.h))
                 ELSE each(e, i, h)
                 : rest \in {character_class(e, x.i, x.h)}})
       : x \in {each(e, i, h)}})

\* string(open) /character_class /~join/ string(']'), mapped to node(open, _[1])
bracketed(open, e, i, h) ==
  IF ~string(open, e.s, i).ok THEN No(h)
  ELSE One({IF c.ok /\ string(<<"]">>, e.s, c.i).ok
              THEN Ok(node(S(open), <<c.v>>, c.h), c.i + 1, Alloc(c.h))
            ELSE No(h)
            : c \in {character_class(e, i + Len(open), h)}})

character_not_in(e, i, h) == bracketed(<<"[", "^">>, e, i, h)

character_in(e, i, h) == bracketed(<<"[">>, e, i, h)

\* string(open) /toplevel /~join/ string(')'), mapped to node(open, _[1]).
\* The heap keeps what toplevel did to it when the join fails after it.
parenthesized(open, e, i, h) ==
  IF ~string(open, e.s, i).ok THEN No(h)
  ELSE One({IF t.ok /\ string(<<")">>, e.s, t.i).ok
              THEN Ok(node(S(open), <<t.v>>, t.h), t.i + 1, Alloc(t.h))
            ELSE No(t.h)
            : t \in {toplevel(e, i + Len(open), h)}})

positive_lookahead(e, i, h) == parenthesized(<<"(", "?", "=">>, e, i, h)

negative_lookahead(e, i, h) == parenthesized(<<"(", "?", "!">>, e, i, h)

forgetful_group(e, i, h) == parenthesized(<<"(", "?", ":">>, e, i, h)

\* the parenthesized node, with "-se- add_group(it)"
group(e, i, h) ==
  One({IF g.ok THEN Ok(g.v, g.i, add_group(g.v, g.h)) ELSE g
       : g \in {parenthesized(<<"(">>, e, i, h)}})

zero_width(e, i, h) ==
  LET c == char({"^", "$"}, e.s, i)
  IN IF c.ok THEN Ok(node(S(c.v), <<>>, h), c.i, Alloc(h)) ELSE No(h)

escaped(e, i, h) ==
  LET bs == char({"\\"}, e.s, i)
      c  == char({"B", "b", "W", "w", "S", "s", "D", "d", "f", "n", "r", "t", "v", "0",
                  "*", "+", ".", "?", "|", "(", ")", "[", "]", "{", "}", "\\", "$", "^"},
                 e.s, bs.i)
  IN IF bs.ok /\ c.ok THEN Ok(node(S(bs.v \o c.v), <<>>, h), c.i, Alloc(h)) ELSE No(h)

escaped_slash(e, i, h) ==
  LET c == string(<<"\\", "/">>, e.s, i)
  IN IF c.ok THEN Ok(node(S(<<"/">>), <<>>, h), c.i, Alloc(h)) ELSE No(h)

control(e, i, h) ==
  LET a == string(<<"\\", "c">>, e.s, i)
      x == any(1, e.s, a.i)
  IN IF a.ok /\ x.ok THEN Ok(node(S(a.v \o x.v), <<>>, h), x.i, Alloc(h)) ELSE No(h)

hex_code(e, i, h) ==
  LET a == string(<<"\\", "x">>, e.s, i)
      x == char(hex, e.s, a.i)
      y == char(hex, e.s, x.i)
  IN IF a.ok /\ x.ok /\ y.ok
       THEN Ok(node(S(a.v \o x.v \o y.v), <<>>, h), y.i, Alloc(h)) ELSE No(h)

unicode(e, i, h) ==
  LET a == string(<<"\\", "u">>, e.s, i)
      w == char(hex, e.s, a.i)
      x == char(hex, e.s, w.i)
      y == char(hex, e.s, x.i)
      z == char(hex, e.s, y.i)
  IN IF a.ok /\ w.ok /\ x.ok /\ y.ok /\ z.ok
       THEN Ok(node(S(a.v \o w.v \o x.v \o y.v \o z.v), <<>>, h), z.i, Alloc(h)) ELSE No(h)

\* a backreference linked to a group that is still open: the node that will
\* be made next, after the backreference itself
backreference_node_of_open_group(k, h) ==
  node(S(<<"\\">>), <<node(N(k), <<>>, h),
                       [id |-> h.next + 2, data |-> S(<<"(">>), kids |-> <<>>]>>, Alloc(h))

\* node('\\', node(k), context.groups[k])
backreference_node(k, h) ==
  node(S(<<"\\">>), <<node(N(k), <<>>, h), GroupAt(h, k)>>, Alloc(h))

single_digit_backreference(e, i, h) ==
  LET bs == char({"\\"}, e.s, i)
      d  == char(digit, e.s, bs.i)
  IN IF bs.ok /\ d.ok
       THEN Ok(backreference_node(ToNumber(d.v), h), d.i, Alloc(Alloc(h))) ELSE No(h)

backreference(e, i, h) ==
  LET bs == char({"\\"}, e.s, i)
      d1 == char(digit, e.s, bs.i)
      d2 == char(digit, e.s, d1.i)
      v  == ToNumber(d1.v \o d2.v)
  IN IF bs.ok /\ d1.ok /\ d2.ok /\ v <= Len(h.groups)
       THEN Ok(backreference_node(v, h), d2.i, Alloc(Alloc(h)))
       ELSE single_digit_backreference(e, i, h)

dot(e, i, h) ==
  LET c == char({"."}, e.s, i)
  IN IF c.ok THEN Ok(node(S(c.v), <<>>, h), c.i, Alloc(h)) ELSE No(h)

other(e, i, h) ==
  LET c == not_char(1, {")", "|", "+", "*", "?", "{"}, e.s, i)
  IN IF c.ok THEN Ok(node(S(c.v), <<>>, h), c.i, Alloc(h)) ELSE No(h)

\* maybe_word that takes one character whatever the atom option is
maybe_word_by_character(e, i, h) == other(e, i, h)

maybe_word(e, i, h) ==
  LET w == many_char(ident, e.s, i)
  IN IF e.atom = "word" /\ w.ok THEN Ok(node(S(w.v), <<>>, h), w.i, Alloc(h))
     ELSE other(e, i, h)

\* the cursor after maybe_munch_spaces, which never fails
maybe_munch_spaces(e, i) == IF e.atom = "word" THEN Run({" "}, e.s, i) ELSE i

\* the alternatives of base that neither push a group nor call toplevel
simple_atom(e, i, h) ==
  One({IF r5.ok THEN r5 ELSE
  One({IF r6.ok THEN r6 ELSE
  One({IF r7.ok THEN r7 ELSE
  One({IF r8.ok THEN r8 ELSE
  One({IF r9.ok THEN r9 ELSE
  One({IF rA.ok THEN rA ELSE
  One({IF rB.ok THEN rB ELSE
  One({IF rC.ok THEN rC ELSE
  One({IF rD.ok THEN rD ELSE
  One({IF rE.ok THEN rE ELSE maybe_word(e, i, h)
       : rE \in {dot(e, i, h)}})
       : rD \in {backreference(e, i, h)}})
       : rC \in {unicode(e, i, h)}})
       : rB \in {hex_code(e, i, h)}})
       : rA \in {control(e, i, h)}})
       : r9 \in {escaped_slash(e, i, h)}})
       : r8 \in {escaped(e, i, h)}})
       : r7 \in {zero_width(e, i, h)}})
       : r6 \in {character_in(e, i, h)}})
       : r5 \in {character_not_in(e, i, h)}})

\* map(maybe_munch_spaces /-join/ alt(positive_lookahead, ..., maybe_word), "_[1]"):
\* each alternative is tried on the heap the failed ones before it left
alternatives(e, i, h) ==
  One({IF r1.ok THEN r1 ELSE
  One({IF r2.ok THEN r2 ELSE
  One({IF r3.ok THEN r3 ELSE
  One({IF r4.ok THEN r4 ELSE simple_atom(e, i, r4.h)
       : r4 \in {group(e, i, r3.h)}})
       : r3 \in {forgetful_group(e, i, r2.h)}})
       : r2 \in {negative_lookahead(e, i, r1.h)}})
       : r1 \in {positive_lookahead(e, i, h)}})

base(e, i, h) == alternatives(e, maybe_munch_spaces(e, i), h)

atom(e, i, h) == base(e, i, h)

\* term: map(atom /-join/ modifiers, "_[1] -se- it.push(_[0])") /-alt/ atom.
\* m is the result of the join's second parser, a failure when the first failed.
term(e, i, h) ==
  One({One({IF m.ok THEN Ok([m.v EXCEPT !.kids = Append(@, a.v)], m.i, m.h)
            ELSE atom(e, i, m.h)
            : m \in {IF a.ok THEN modifiers(e, a.i, a.h) ELSE No(a.h)}})
       : a \in {atom(e, i, h)}})

\* map(term /-join/ toplevel, "node(',', _[0], _[1])") /-alt/ term: the rest of
\* a concatenation read with the rule of the disjunction
no_pipes_over_toplevel(e, i, h) ==
  One({One({IF rest.ok
              THEN Ok(node(S(<<",">>), <<t.v, rest.v>>, rest.h), rest.i, Alloc(rest.h))
            ELSE term(e, i, rest.h)
            : rest \in {IF t.ok THEN toplevel(e, t.i, t.h) ELSE No(t.h)}})
       : t \in {term(e, i, h)}})

\* no_pipes: map(term /-join/ no_pipes, "node(',', _[0], _[1])") /-alt/ term
no_pipes(e, i, h) ==
  One({One({IF rest.ok
              THEN Ok(node(S(<<",">>), <<t.v, rest.v>>, rest.h), rest.i, Alloc(rest.h))
            ELSE term(e, i, rest.h)
            : rest \in {IF t.ok THEN no_pipes(e, t.i, t.h) ELSE No(t.h)}})
       : t \in {term(e, i, h)}})

\* toplevel: map(no_pipes /char('|') /~join/toplevel, "node('|', _[0], _[2])") /-alt/ no_pipes
toplevel(e, i, h) ==
  One({One({IF b.ok THEN Ok(node(S(<<"|">>), <<a.v, b.v>>, b.h), b.i, Alloc(b.h))
            ELSE no_pipes(e, i, b.h)
            : b \in {IF a.ok /\ char({"|"}, e.s, a.i).ok
                       THEN toplevel(e, a.i + 1, a.h) ELSE No(a.h)}})
       : a \in {no_pipes(e, i, h)}})

(***************************************************************************)
(* regexp_parse                                                            *)
(***************************************************************************)
\* the characters the regular expression dot does not match
LineTerminators == {"\n", "\r"}

NoLineTerminator(t) == \A k \in 1..Len(t) : t[k] \notin LineTerminators

\* /^\/(.*)\/([gim]*)$/.exec(r) || /^(.*)$/.exec(r): the groups 1 and 2 of the
\* match; group 2 of the second expression is undefined, and the whole is null
\* when neither matches.
pieces(text) ==
  LET slashes == {k \in 2..Len(text) : text[k] = "/"}
      last    == CHOOSE k \in slashes : \A j \in slashes : j <= k
      tail    == SubSeq(text, last + 1, Len(text))
      body    == SubSeq(text, 2, last - 1)
  IN IF /\ Len(text) >= 2 /\ text[1] = "/" /\ slashes # {}
        /\ \A k \in 1..Len(tail) : tail[k] \in {"g", "i", "m"}
        /\ NoLineTerminator(body)
       THEN [null |-> FALSE, p1 |-> body, p2 |-> tail]
     ELSE IF NoLineTerminator(text)
       THEN [null |-> FALSE, p1 |-> text,
             p2 |-> <<"u", "n", "d", "e", "f", "i", "n", "e", "d">>]
     ELSE [null |-> TRUE, p1 |-> <<>>, p2 |-> <<>>]

\* {i: /i/.test(it), m: /m/.test(it), g: /g/.test(it)}
flags(it) ==
  [i |-> \E k \in 1..Len(it) : it[k] = "i",
   m |-> \E k \in 1..Len(it) : it[k] = "m",
   g |-> \E k \in 1..Len(it) : it[k] = "g"]

NoFlags == [i |-> FALSE, m |-> FALSE, g |-> FALSE]

NoResult ==
  [status |-> "none", tree |-> undefined, groups |-> <<>>, flags |-> NoFlags,
   s |-> <<>>, i |-> 0, message |-> <<>>, next |-> 1]

\* 'caterwaul.regexp(): failed to parse #{r.toString()}'
FailedToParse(text) == <<"caterwaul.regexp(): failed to parse ">> \o text

\* the context of an earlier call kept for the next one
context_kept(prev) == prev

\* context = {groups: [], flags: flags}: every call makes its own registry;
\* prev is the heap the call finds, its objects keep their identities
context(prev) == [groups |-> <<>>, next |-> prev.next]

\* regexp_parse(r, options) called when the heap is prev: status "returned"
\* with the tree it.v[0], or the error that is raised.  i is the cursor of the
\* toplevel match, next the heap's next identity after the call.
regexp_call(text, atom_option, prev) ==
  LET ps == pieces(text)
      e  == [s |-> ps.p1, atom |-> atom_option]
  IN IF ps.null THEN [NoResult EXCEPT !.status = "TypeError", !.next = prev.next]
     ELSE One({IF it.ok /\ end(e.s, it.i)
                 THEN [status |-> "returned", tree |-> it.v, groups |-> it.h.groups,
                       flags |-> flags(ps.p2), s |-> e.s, i |-> it.i, message |-> <<>>,
                       next |-> it.h.next]
               ELSE [status |-> "Error", tree |-> undefined, groups |-> it.h.groups,
                     flags |-> flags(ps.p2), s |-> e.s, i |-> IF it.ok THEN it.i ELSE 0,
                     message |-> FailedToParse(text), next |-> it.h.next]
               : it \in {toplevel(e, 0, context(prev))}})

\* regexp_parse(r, options), the first call of a program
regexp_parse(text, atom_option) == regexp_call(text, atom_option, NewHeap)

\* the heap a call has left behind
HeapAfter(res) == [groups |-> res.groups, next |-> res.next]

(***************************************************************************)
(* regexp_methods                                                          *)
(***************************************************************************)
\* this[k]
Child(n, k) == IF k < Len(n.kids) THEN n.kids[k + 1] ELSE undefined

IsUndefined(n) == n.id = 0

StartsWith(t, c) == Len(t) >= 1 /\ t[1] = c

is_positive_lookahead(n) == n.data.str = <<"(", "?", "=">>

is_negative_lookahead(n) == n.data.str = <<"(", "?", "!">>

is_zero_width(n) ==
  \/ n.data.str \in {<<"^">>, <<"$">>, <<"\\", "B">>, <<"\\", "b">>}
  \/ is_positive_lookahead(n)
  \/ is_negative_lookahead(n)

is_one_or_more(n) == n.data.str \in {<<"+">>, <<"+", "?">>}

is_zero_or_more(n) == n.data.str \in {<<"*">>, <<"*", "?">>}

is_optional(n) == n.data.str = <<"?">>

is_non_greedy(n) == Len(n.data.str) >= 2 /\ n.data.str[Len(n.data.str)] = "?"

is_repetition(n) ==
  n.data.str \in {<<"+">>, <<"*">>, <<"{">>, <<"+", "?">>, <<"*", "?">>, <<"{", "?">>, <<"?">>}

repeated_child(n) == IF StartsWith(n.data.str, "{") THEN Child(n, 2) ELSE Child(n, 0)

is_character_class(n) == StartsWith(n.data.str, "[")

is_single_escape(n) == StartsWith(n.data.str, "\\") /\ Len(n.data.str) >= 2

is_range(n) == n.data.str = <<"-">> /\ Len(n.kids) = 2

is_atom(n) == Len(n.kids) = 0

is_any_group(n) == StartsWith(n.data.str, "(")

is_group(n) == n.data.str = <<"(">>

is_forgetful(n) == n.data.str = <<"(", "?", ":">>

is_backreference(n) == n.data.str = <<"\\">>

is_disjunction(n) == n.data.str = <<"|">> /\ Len(n.kids) = 2

is_join(n) == n.data.str = <<",">> /\ Len(n.kids) = 2

\* the value of x.data, which raises when x is undefined
DataOf(x) ==
  IF IsUndefined(x) THEN TypeError
  ELSE IF x.data.typ = "number" THEN Number(x.data.num)
  ELSE String(x.data.str)

lower_limit(n) ==
  IF is_one_or_more(n) THEN Number(1)
  ELSE IF is_zero_or_more(n) \/ is_optional(n) THEN Number(0)
  ELSE IF StartsWith(n.data.str, "{") THEN DataOf(Child(n, 0))
  ELSE LimitError

\* upper_limit with '?' taken for an unbounded quantifier
upper_limit_optional_unbounded(n) ==
  IF is_zero_or_more(n) \/ is_one_or_more(n) \/ is_optional(n) THEN Number(Infinity.num)
  ELSE IF StartsWith(n.data.str, "{") THEN DataOf(Child(n, 1))
  ELSE LimitError

upper_limit(n) ==
  IF is_zero_or_more(n) \/ is_one_or_more(n) THEN Number(Infinity.num)
  ELSE IF is_optional(n) THEN Number(1)
  ELSE IF StartsWith(n.data.str, "{") THEN DataOf(Child(n, 1))
  ELSE LimitError

IsRaised(v) == v.t \in {"TypeError", "Error"}

NaN == [t |-> "NaN", n |-> 0, s |-> <<>>]

\* a * b, a + b and Math.min(a, b) of two evaluated operands; a raised operand
\* ends the evaluation, the left one first
Arith(op, a, b) ==
  IF IsRaised(a) THEN a
  ELSE IF IsRaised(b) THEN b
  ELSE IF a.t # "number" \/ b.t # "number" THEN NaN
  ELSE Number(CASE op = "*" -> a.n * b.n [] op = "+" -> a.n + b.n [] op = "min" -> Min(a.n, b.n))

\* op applied to the values of two calls, each evaluated once
Arith2(op, operands) == Arith(op, operands[1], operands[2])

RECURSIVE minimum_length(_)
minimum_length(n) ==
  LET call(x) == IF IsUndefined(x) THEN TypeError ELSE minimum_length(x)
  IN IF is_zero_width(n) THEN Number(0)
     ELSE IF is_single_escape(n) \/ is_character_class(n) THEN Number(1)
     ELSE IF is_repetition(n)
       THEN One({Arith2("*", v) : v \in {<<lower_limit(n), call(repeated_child(n))>>}})
     ELSE IF is_group(n) \/ is_forgetful(n) THEN call(Child(n, 0))
     ELSE IF is_backreference(n) THEN call(Child(n, 1))
     ELSE IF is_disjunction(n)
       THEN One({Arith2("min", v) : v \in {<<call(Child(n, 0)), call(Child(n, 1))>>}})
     ELSE IF is_join(n)
       THEN One({Arith2("+", v) : v \in {<<call(Child(n, 0)), call(Child(n, 1))>>}})
     ELSE IF n.data.typ = "string" THEN Number(Len(n.data.str))
     ELSE UndefinedValue

\* the text of a value in a string concatenation
TextOf(v) == IF v.t = "number" THEN DigitsOf(v.n) ELSE v.s

\* the concatenation of values and texts; a raised part ends it
Concat(parts) ==
  LET raised == {k \in 1..Len(parts) : IsRaised(parts[k])}
      first  == CHOOSE k \in raised : \A j \in raised : k <= j
      F[k \in 0..Len(parts)] == IF k = 0 THEN <<>> ELSE F[k - 1] \o TextOf(parts[k])
  IN IF raised # {} THEN parts[first] ELSE String(F[Len(parts)])

IsWord(t) == Len(t) >= 2 /\ \A k \in 1..Len(t) : t[k] \in ident

\* the {m}, {m,} or {m,n} of a '{' node
Bounds(n) ==
  LET lo == Child(n, 0)
      hi == Child(n, 1)
  IN IF IsUndefined(lo) \/ IsUndefined(hi) THEN TypeError
     ELSE IF lo.data = hi.data THEN String(<<"{">> \o lo.data.str \o <<"}">>)
     ELSE IF hi.data = Infinity THEN String(<<"{">> \o lo.data.str \o <<",", "}">>)
     ELSE String(<<"{">> \o lo.data.str \o <<",">> \o hi.data.str \o <<"}">>)

RECURSIVE toString(_)
toString(n) ==
  LET call(x) == IF IsUndefined(x) THEN TypeError ELSE toString(x)
      data    == String(n.data.str)
      lo      == Child(n, 0)
      hi      == Child(n, 1)
      parts   ==
        IF is_any_group(n) THEN <<data, call(lo), String(<<")">>)>>
        ELSE IF is_character_class(n) THEN <<data, call(lo), String(<<"]">>)>>
        ELSE IF is_range(n) THEN <<call(lo), String(<<"-">>), call(hi)>>
        ELSE IF is_zero_or_more(n) \/ is_one_or_more(n) \/ is_optional(n)
          THEN <<call(lo), data>>
        ELSE IF is_repetition(n) THEN <<call(Child(n, 2)), Bounds(n)>>
        ELSE IF is_zero_width(n) THEN <<data>>
        ELSE IF is_backreference(n) THEN <<String(<<"\\">>), DataOf(lo)>>
        ELSE IF is_disjunction(n) THEN <<call(lo), String(<<"|">>), call(hi)>>
        ELSE IF is_join(n) THEN <<call(lo), call(hi)>>
        ELSE IF is_atom(n) /\ IsWord(n.data.str)
          THEN <<String(<<"(", "?", ":">> \o n.data.str \o <<")">>)>>
        ELSE <<>>
  IN IF parts = <<>> THEN DataOf(n) ELSE One({Concat(v) : v \in {parts}})

match_groups(res) == res.groups

RECURSIVE NodesOf(_)
\* the nodes of a tree: n and the nodes its child links reach
NodesOf(n) ==
  IF IsUndefined(n) THEN {}
  ELSE {n} \cup UNION {NodesOf(n.kids[k]) : k \in 1..Len(n.kids)}

(***************************************************************************)
(* The program as a state machine: one call of caterwaul.regexp(r, options)*)
(* and then calls of the methods of the nodes of the tree it returned.     *)
(***************************************************************************)
MaxLen == 3

Alphabet == {"a", "(", ")", "\\", "|", "+", "/"}

\* every text over Alphabet of at most MaxLen characters
ShortTexts == UNION {[1..k -> Alphabet] : k \in 0..MaxLen}

\* the patterns of the documentation and the README, and others like them
Examples ==
  {<<"a", ")">>,
   <<"(", "a">>,
   <<"f", "o", "o">>,
   <<"(", "(", "a", ")", "(", "b", ")", ")">>,
   <<"(", "a", ")", "(", "b", ")", "\\", "1">>,
   <<"(", "a", ")", "(", "b", "b", ")", "(", "c", "c", "c", ")", "\\", "3">>,
   <<"(", "a", ")", "(", "b", ")", "(", "c", ")", "(", "d", ")", "(", "e", ")", "(", "f", ")", "(", "g", ")", "(", "h", ")", "(", "i", ")", "(", "j", ")", "(", "k", ")", "\\", "1", "0">>,
   <<"(", "a", ")", "(", "b", ")", "(", "c", ")", "\\", "1", "0">>,
   <<"(", "a", ")", "(", "a", ")", "(", "a", ")", "(", "a", ")", "(", "a", ")", "\\", "1", "0">>,
   <<"\\", "1">>,
   <<"a", "*">>,
   <<"a", "+">>,
   <<"a", "{", "3", ",", "5", "}">>,
   <<"f", "o", "o", "(", "b", "a", "r", ")", "\\", "1", "+", "(", "?", "!", "b", "i", "f", ")">>,
   <<"(", "a", ")">>,
   <<"(", "a", ")", "\\", "1">>,
   <<"(", "a", ")", "\\", "1", "|", "b">>,
   <<"(", "a", ")", "+", "\\", "1">>,
   <<"\\", "/", "a", "\\", "/">>,
   <<"[", "a", "-", "z", "]">>,
   <<"[", "+", "]">>,
   <<"a", "\n", "b">>,
   <<"/", "f", "o", "o", "/", "i">>,
   <<"/", "^", "f", "o", "o", "/", "m">>,
   <<"f", "o", "o", "(", "b", "a", "r", ")", "?", "\\", "w", "+">>,
   <<"f", "o", "o", "(", "?", "=", "b", "a", "r", ")">>,
   <<"f", "o", "o", "(", "?", ":", "b", "a", "r", ")", "+">>,
   <<"[", "^", "a", "-", "z", "]">>,
   <<"[", "a", "-", "z", "A", "B", "C", "]">>,
   <<"[", "-", "a", "b", "c", "]">>,
   <<"f", "o", "o", " ", "b", "a", "r", "+">>,
   <<"a", "?", "?">>,
   <<"a", "*", "*">>,
   <<"*", "a">>,
   <<"a", "|", "b", "|", "c">>,
   <<"a", "b", "c">>,
   <<"a", "b", "|", "c", "d">>,
   <<"a", "b", "+">>,
   <<"a", "{", "3", "}">>,
   <<"a", "{", "3", ",", "}">>,
   <<"a", "+", "?">>,
   <<"a", "{", "3", ",", "5", "}", "?">>,
   <<"/", "a", "/", "x">>,
   <<"\\", "a">>,
   <<"[", "a">>,
   <<"(", "?", ":", "(", "a", ")">>,
   <<"/", "a", "/", "g", "i", "m">>,
   <<"\\", "x", "4", "1", "\\", "u", "0", "0", "4", "1", "\\", "c", "A", "\\", "b", "\\", "B", "^", "$", ".">>,
   <<"a", "?">>,
   <<"a", "*", "?">>,
   <<"a", "{", "3", ",", "}", "?">>,
   <<"(", "a", ")", "*">>,
   <<"[", "a", "b", "]", "{", "2", "}">>,
   <<"(", "?", ":", "a", "b", ")", "{", "1", "0", ",", "2", "0", "}", "?">>,
   <<"/", "a", "/", "g">>,
   <<"/", "a", "/", "m", "i">>,
   <<"/", "a", "\n", "b", "/", "i">>,
   <<"a", " ">>,
   <<"a", " ", "+">>,
   <<"a", " ", "|", "b">>,
   <<"(", "a", " ", ")">>,
   <<" ", "a">>,
   <<"a", " ", " ", "b">>,
   <<"[", "a", " ", "b", "]">>,
   <<"a", "+", "?", "?">>,
   <<"a", "{", "3", "}", "{", "4", "}">>,
   <<"a", "{">>,
   <<"a", "?", "+">>,
   <<"a", "|", "*", "b">>,
   <<"[", "{", "]">>,
   <<"[", "?", "]">>,
   <<"[", "(", "]">>,
   <<"[", "a", "-", "]">>,
   <<"[", "a", "-", "]", "]">>,
   <<"[", "]", "-", "a", "]">>,
   <<"[", "a", "b", "c", "-", "]">>,
   <<"[", "\\", "]", "]">>,
   <<"(", "a", "\\", "1", ")">>,
   <<"(", "(", "a", ")", ")">>,
   <<"a", "{", "3", "}", "?">>}

Inputs == ShortTexts \cup Examples

Settings == {"character", "word"}

NoQuery == [op |-> "none", node |-> undefined, value |-> UndefinedValue, again |-> NoResult]

Init ==
  /\ r \in Inputs
  /\ options \in Settings
  /\ pc = "start"
  /\ result = NoResult
  /\ query = NoQuery

\* caterwaul.regexp(r, options)
Parse ==
  /\ pc = "start"
  /\ result' = regexp_parse(r, options)
  /\ pc' = "parsed"
  /\ UNCHANGED <<r, options, query>>

\* node.minimum_length() on a node of the returned tree; a run observes one
\* method call, the methods change nothing they read
CallMinimumLength ==
  /\ pc = "parsed"
  /\ query.op = "none"
  /\ result.status = "returned"
  /\ \E n \in NodesOf(result.tree) :
       query' = [op |-> "minimum_length", node |-> n, value |-> minimum_length(n),
                 again |-> NoResult]
  /\ UNCHANGED <<r, options, pc, result>>

\* node.toString() on a node of the returned tree
CallToString ==
  /\ pc = "parsed"
  /\ query.op = "none"
  /\ result.status = "returned"
  /\ \E n \in NodesOf(result.tree) :
       query' = [op |-> "toString", node |-> n, value |-> toString(n), again |-> NoResult]
  /\ UNCHANGED <<r, options, pc, result>>

\* node.lower_limit() on a node of the returned tree
CallLowerLimit ==
  /\ pc = "parsed"
  /\ query.op = "none"
  /\ result.status = "returned"
  /\ \E n \in NodesOf(result.tree) :
       query' = [op |-> "lower_limit", node |-> n, value |-> lower_limit(n),
                 again |-> NoResult]
  /\ UNCHANGED <<r, options, pc, result>>

\* node.upper_limit() on a node of the returned tree
CallUpperLimit ==
  /\ pc = "parsed"
  /\ query.op = "none"
  /\ result.status = "returned"
  /\ \E n \in NodesOf(result.tree) :
       query' = [op |-> "upper_limit", node |-> n, value |-> upper_limit(n),
                 again |-> NoResult]
  /\ UNCHANGED <<r, options, pc, result>>

\* caterwaul.regexp(node.toString(), options): the text toString returned is
\* parsed again
Reparse ==
  /\ pc = "parsed"
  /\ query.op = "toString"
  /\ ~IsRaised(query.value)
  /\ query' = [query EXCEPT !.op = "reparse",
                            !.again = regexp_call(TextOf(query.value), options,
                                                  HeapAfter(result))]
  /\ UNCHANGED <<r, options, pc, result>>

\* caterwaul.regexp(r, options) once more, after the first call or after the
\* call that parsed the text of toString
ParseAgain ==
  /\ pc = "parsed"
  /\ query.op \in {"none", "reparse"}
  /\ query' = [op |-> "parse_again", node |-> undefined, value |-> UndefinedValue,
               again |-> regexp_call(r, options,
                                     HeapAfter(IF query.op = "reparse" THEN query.again
                                               ELSE result))]
  /\ UNCHANGED <<r, options, pc, result>>

Next ==
  \/ Parse
  \/ CallMinimumLength
  \/ CallToString
  \/ CallLowerLimit
  \/ CallUpperLimit
  \/ Reparse
  \/ ParseAgain

Spec == Init /\ [][Next]_vars

(***************************************************************************)
(* What the documentation says of the program, stated over the runs above. *)
(***************************************************************************)
Returned == pc = "parsed" /\ result.status = "returned"

\* text occurs in msg as a contiguous part
Contains(msg, text) ==
  \E k \in 0..(Len(msg) - Len(text)) : SubSeq(msg, k + 1, k + Len(text)) = text

NoScan == [open |-> 0, cls |-> FALSE, groups |-> 0, stray |-> FALSE]

RECURSIVE ScanGroups(_, _, _)
\* a reading of the pattern text t from position k on that skips escaped
\* characters and the members of character classes: open counts the '(' not
\* yet closed, groups the capturing '(' seen, stray is set by a ')' that
\* closes nothing
ScanGroups(t, k, st) ==
  IF k > Len(t) THEN st
  ELSE IF t[k] = "\\" THEN ScanGroups(t, k + 2, st)
  ELSE IF st.cls
    THEN ScanGroups(t, k + 1, IF t[k] = "]" THEN [st EXCEPT !.cls = FALSE] ELSE st)
  ELSE IF t[k] = "[" THEN ScanGroups(t, k + 1, [st EXCEPT !.cls = TRUE])
  ELSE IF t[k] = "("
    THEN ScanGroups(t, k + 1,
           [st EXCEPT !.open = @ + 1,
                      !.groups = IF k < Len(t) /\ t[k + 1] = "?" THEN @ ELSE @ + 1])
  ELSE IF t[k] = ")"
    THEN ScanGroups(t, k + 1,
           IF st.open > 0 THEN [st EXCEPT !.open = @ - 1] ELSE [st EXCEPT !.stray = TRUE])
  ELSE ScanGroups(t, k + 1, st)

\* the pattern text has a '(' outside a character class that nothing closes
Unterminated(t) == ScanGroups(t, 1, NoScan).open > 0

\* every '(' of the pattern text is closed and every ')' closes one
Balanced(t) ==
  LET st == ScanGroups(t, 1, NoScan) IN st.open = 0 /\ ~st.stray /\ ~st.cls

\* a node the group rule made, and a node a backreference rule made
IsGroupNode(n) == is_group(n) /\ Len(n.kids) = 1

IsBackreferenceNode(n) == is_backreference(n) /\ Len(n.kids) = 2

Ordinal(b) == b.kids[1].data.num

RECURSIVE Walk(_)
\* the nodes of a tree in the order the text completes them, children before
\* their parent; the link of a backreference is not followed
Walk(n) ==
  IF IsUndefined(n) THEN <<>>
  ELSE IF IsBackreferenceNode(n) THEN <<n>>
  ELSE LET W[k \in 0..Len(n.kids)] == IF k = 0 THEN <<>> ELSE W[k - 1] \o Walk(n.kids[k])
       IN W[Len(n.kids)] \o <<n>>

RECURSIVE GroupsInOrder(_)
\* the capturing groups of a tree in the order of their '(' in the text
GroupsInOrder(n) ==
  IF IsUndefined(n) \/ IsBackreferenceNode(n) THEN <<>>
  ELSE LET G[k \in 0..Len(n.kids)] ==
             IF k = 0 THEN <<>> ELSE G[k - 1] \o GroupsInOrder(n.kids[k])
       IN (IF IsGroupNode(n) THEN <<n>> ELSE <<>>) \o G[Len(n.kids)]

\* the number of capturing groups closed before position p of a walk
ClosedBefore(w, p) == Cardinality({q \in 1..(p - 1) : IsGroupNode(w[q])})

RECURSIVE Shape(_)
\* a node without the identities of its nodes
Shape(n) ==
  IF IsUndefined(n) THEN <<>>
  ELSE <<n.data, [k \in 1..Len(n.kids) |-> Shape(n.kids[k])]>>

\* C1: every call of parse either returns a tree of a toplevel match that ends
\* exactly at the end of the pattern text, or raises an Error whose message
\* contains the original input; "a)" raises the error.
C1_ParseReturnsFullMatchOrNamesInput ==
  pc = "parsed" =>
    /\ \/ result.status = "returned" /\ result.i = Len(result.s)
       \/ result.status = "Error" /\ Contains(result.message, r)
    /\ r = <<"a", ")">> => result.status = "Error"

\* C2: a pattern with a '(' outside a character class that nothing closes,
\* such as "(a", fails with the parse error and no tree is returned for it.
C2_UnterminatedGroupFails ==
  (pc = "parsed" /\ result.status # "TypeError" /\ Unterminated(result.s))
    => result.status = "Error"

\* C3: after a successful parse match_groups() has exactly one node for each
\* capturing group written in the pattern; it is empty for "foo" and it is
\* [outer, inner-a, inner-b] for "((a)(b))".
C3_OneRegistryEntryPerCapturingGroup ==
  (Returned /\ Balanced(result.s)) =>
    /\ Len(match_groups(result)) = ScanGroups(result.s, 1, NoScan).groups
    /\ r = <<"f", "o", "o">> => match_groups(result) = <<>>
    /\ r = <<"(", "(", "a", ")", "(", "b", ")", ")">> =>
         /\ Len(match_groups(result)) = 3
         /\ match_groups(result)[1] = result.tree
         /\ Shape(match_groups(result)[2]) = <<S(<<"(">>), <<<<S(<<"a">>), <<>>>>>>>>
         /\ Shape(match_groups(result)[3]) = <<S(<<"(">>), <<<<S(<<"b">>), <<>>>>>>>>

\* C4: a backreference \k with k at most the number of capturing groups
\* completed before it has as its second child the node of the k-th capturing
\* group of the pattern, counted from 1: \1 the first group, \3 the third.
C4_BackreferenceBoundToKthGroup ==
  Returned =>
    LET w == Walk(result.tree)
    IN \A p \in 1..Len(w) :
         (IsBackreferenceNode(w[p]) /\ Ordinal(w[p]) >= 1
            /\ Ordinal(w[p]) <= ClosedBefore(w, p))
           => Shape(Child(w[p], 1)) = Shape(GroupsInOrder(result.tree)[Ordinal(w[p])])

\* C5: a backslash and two digits NN are one two-digit backreference exactly
\* when NN is at most the number of capturing groups closed before it, and
\* otherwise a one-digit backreference and an atom for the second digit: after
\* 11 groups \10 refers to group 10, after 3 groups it is \1 and the atom '0'.
C5_TwoDigitBackreferenceOnlyWithinBounds ==
  Returned =>
    LET w == Walk(result.tree)
    IN /\ \A p \in 1..Len(w) :
            IsBackreferenceNode(w[p]) =>
              /\ Ordinal(w[p]) >= 10 => Ordinal(w[p]) <= ClosedBefore(w, p)
              /\ (/\ Ordinal(w[p]) \in 1..9
                  /\ p < Len(w)
                  /\ is_atom(w[p + 1])
                  /\ w[p + 1].data.str # <<>>
                  /\ w[p + 1].data.str[1] \in digit)
                   => 10 * Ordinal(w[p]) + ToNumber(<<w[p + 1].data.str[1]>>)
                        > ClosedBefore(w, p)
       /\ \A p \in 1..Len(w) :
            (IsBackreferenceNode(w[p]) /\ Ordinal(w[p]) = 10 /\ ClosedBefore(w, p) = 11)
              => Shape(Child(w[p], 1)) = Shape(GroupsInOrder(result.tree)[10])

\* C6: with no capturing group completed before it, \1 is not parsed as a
\* backreference, so no backreference node without a bound group is made.
C6_NoBackreferenceWithoutGroup ==
  Returned =>
    LET w == Walk(result.tree)
    IN \A p \in 1..Len(w) :
         IsBackreferenceNode(w[p]) =>
           ClosedBefore(w, p) >= 1 /\ ~IsUndefined(Child(w[p], 1))

\* C7: in the returned tree the second child of every backreference node is
\* the very same node as a capturing-group node that occurs in that tree and
\* is listed in match_groups().  Stated of the backreferences that have a
\* second child.
C7_BackreferenceLinksGroupOfTheTree ==
  Returned =>
    LET w == Walk(result.tree)
    IN \A p \in 1..Len(w) :
         (IsBackreferenceNode(w[p]) /\ ~IsUndefined(Child(w[p], 1))) =>
           \E q \in 1..Len(w) :
             /\ IsGroupNode(w[q])
             /\ w[q] = Child(w[p], 1)
             /\ \E k \in 1..Len(match_groups(result)) : match_groups(result)[k] = w[q]

\* C8: for every node of a returned tree toString(node) is text that parses
\* again, and the tree parsed from it has the same minimum_length() and as
\* many match_groups() entries as the original.
C8_ToStringRoundTrip ==
  /\ (query.op = "toString" /\ query.node \in NodesOf(result.tree))
       => query.value.t = "string"
  /\ query.op = "reparse" =>
       /\ query.again.status = "returned"
       /\ minimum_length(query.again.tree) = minimum_length(query.node)
       /\ Len(match_groups(query.again)) = Len(match_groups(result))

RECURSIVE MinimumLengthByKind(_)
\* the recursive definition of the documentation, by the kind of node the
\* grammar made: a leaf is zero-width, an escape or an atom; a node with
\* children is a lookahead, a class, a group, a disjunction, a concatenation
\* or a repetition
MinimumLengthByKind(n) ==
  LET d == n.data.str
      kid(k) == MinimumLengthByKind(n.kids[k])
  IN IF Len(n.kids) = 0
       THEN IF d \in {<<"^">>, <<"$">>, <<"\\", "b">>, <<"\\", "B">>} THEN 0
            ELSE IF Len(d) >= 2 /\ d[1] = "\\" THEN 1
            ELSE Len(d)
     ELSE IF d \in {<<"(", "?", "=">>, <<"(", "?", "!">>} THEN 0
     ELSE IF d[1] = "[" THEN 1
     ELSE IF d \in {<<"(">>, <<"(", "?", ":">>} THEN kid(1)
     ELSE IF d = <<"|">> THEN Min(kid(1), kid(2))
     ELSE IF d = <<",">> THEN kid(1) + kid(2)
     ELSE IF d[1] = "{" THEN n.kids[1].data.num * kid(3)
     ELSE IF d[1] = "+" THEN kid(1)
     ELSE IF d[1] \in {"*", "?"} THEN 0
     ELSE Len(d)

\* no backreference among the nodes of n
NoBackreference(n) == \A x \in NodesOf(n) : ~IsBackreferenceNode(x)

\* C9: minimum_length is 0 for ^, $, \b, \B and the lookaheads, 1 for an
\* escape and for a character class, lower_limit times the body's for a
\* repetition, the child's for a group, the smaller branch's for a
\* disjunction, the sum for a concatenation and the number of characters of
\* an atom otherwise; a* gives 0, a+ gives 1 and a{3,5} gives 3.
C9_MinimumLengthByNodeKind ==
  (/\ query.op = "minimum_length"
   /\ query.node.data.typ = "string"
   /\ NoBackreference(query.node))
    => query.value = Number(MinimumLengthByKind(query.node))

\* C10: minimum_length of a backreference \k is minimum_length of the k-th
\* capturing group of the pattern; foo(bar)\1+(?!bif) has minimum length 9.
C10_BackreferenceLengthIsGroupLength ==
  (Returned /\ query.op = "minimum_length") =>
    LET w == Walk(result.tree)
    IN /\ \A p \in 1..Len(w) :
            (/\ w[p] = query.node
             /\ IsBackreferenceNode(w[p])
             /\ Ordinal(w[p]) >= 1
             /\ Ordinal(w[p]) <= ClosedBefore(w, p))
              => query.value = minimum_length(GroupsInOrder(result.tree)[Ordinal(w[p])])
       /\ (/\ r = <<"f", "o", "o", "(", "b", "a", "r", ")", "\\", "1", "+",
                    "(", "?", "!", "b", "i", "f", ")">>
           /\ query.node = result.tree)
            => query.value = Number(9)

\* C11: minimum_length() on the root or on any node of a returned tree
\* returns a non-negative integer; it never raises.
C11_MinimumLengthIsANaturalNumber ==
  (query.op = "minimum_length" /\ query.node.data.typ = "string")
    => query.value.t = "number" /\ query.value.n >= 0

\* a node a quantifier suffix made: the suffix node, the quantified atom pushed
\* onto it
IsQuantifierNode(n) ==
  Len(n.kids) >= 1 /\ n.data.typ = "string" /\ n.data.str # <<>>
    /\ n.data.str[1] \in {"+", "*", "?", "{"}

\* the last position of character c in text t, 0 when there is none
LastIndexOf(t, c) ==
  LET at == {k \in 1..Len(t) : t[k] = c}
  IN IF at = {} THEN 0 ELSE CHOOSE k \in at : \A j \in at : j <= k

AllDigits(t) == t # <<>> /\ \A k \in 1..Len(t) : t[k] \in digit

\* the bounds <<lower, upper>> a quantifier suffix denotes, read from its text;
\* << >> when the text is no quantifier
DenotedLimits(q) ==
  LET b == IF Len(q) >= 2 /\ q[Len(q)] = "?" THEN SubSeq(q, 1, Len(q) - 1) ELSE q
      inner == SubSeq(b, 2, Len(b) - 1)
      c == LastIndexOf(inner, ",")
      lo == SubSeq(inner, 1, c - 1)
      hi == SubSeq(inner, c + 1, Len(inner))
  IN IF b = <<"+">> THEN <<1, Infinity.num>>
     ELSE IF b = <<"*">> THEN <<0, Infinity.num>>
     ELSE IF b = <<"?">> /\ q = b THEN <<0, 1>>
     ELSE IF Len(b) >= 3 /\ b[1] = "{" /\ b[Len(b)] = "}"
       THEN IF AllDigits(inner) THEN <<ToNumber(inner), ToNumber(inner)>>
            ELSE IF c > 0 /\ AllDigits(lo) /\ hi = <<>> THEN <<ToNumber(lo), Infinity.num>>
            ELSE IF c > 0 /\ AllDigits(lo) /\ AllDigits(hi) THEN <<ToNumber(lo), ToNumber(hi)>>
            ELSE <<>>
     ELSE <<>>

\* the quantified atom of a quantifier node: term pushes it last
QuantifiedAtom(n) == n.kids[Len(n.kids)]

\* where the text of the quantified atom of the root ends in the pattern text
\* s: after the atom's own text, after the ')' of a group or a lookahead, after
\* the ']' of a class; 0 when the root is no such term
AtomEnd(s, n) ==
  LET b == QuantifiedAtom(n)
      d == b.data.str
  IN IF ~IsQuantifierNode(n) \/ IsUndefined(b) \/ b.data.typ # "string" \/ d = <<>> THEN 0
     ELSE IF Len(b.kids) = 0
       THEN IF Len(d) < Len(s) /\ SubSeq(s, 1, Len(d)) = d THEN Len(d) ELSE 0
     ELSE IF d[1] = "(" THEN LastIndexOf(s, ")")
     ELSE IF d[1] = "[" THEN LastIndexOf(s, "]")
     ELSE 0

\* the quantifier suffix of a pattern that is one quantified term
SuffixOf(s, n) == SubSeq(s, AtomEnd(s, n) + 1, Len(s))

C13_LimitsOfOtherNodesRaiseLimitError ==
  (/\ query.op \in {"lower_limit", "upper_limit"}
   /\ query.node.data.typ = "string"
   /\ ~IsQuantifierNode(query.node))
    => query.value = LimitError

\* the input has the form /pattern/flags with flags a text over g, i, m
Delimited(t) ==
  /\ Len(t) >= 2
  /\ t[1] = "/"
  /\ LastIndexOf(t, "/") >= 2
  /\ \A k \in (LastIndexOf(t, "/") + 1)..Len(t) : t[k] \in {"g", "i", "m"}

\* the text between the first and the last slash, and the text after the last
PatternOf(t) == SubSeq(t, 2, LastIndexOf(t, "/") - 1)

FlagsOf(t) == SubSeq(t, LastIndexOf(t, "/") + 1, Len(t))

\* C14: an input that is not of the form /pattern/flags with flags over g, i,
\* m is parsed whole as the pattern, and i(), m() and g() are all false.
C14_BareInputIsWholePatternWithoutFlags ==
  (pc = "parsed" /\ ~Delimited(r)) =>
    /\ result.s = r
    /\ Returned => result.flags = [i |-> FALSE, m |-> FALSE, g |-> FALSE]

\* C15: for an input /pattern/flags with flags over g, i, m the text parsed is
\* pattern, and i(), m(), g() are true exactly for the letters in flags.
C15_DelimitedInputGivesPatternAndFlags ==
  (pc = "parsed" /\ Delimited(r)) =>
    /\ result.s = PatternOf(r)
    /\ Returned =>
         result.flags = [i |-> \E k \in 1..Len(FlagsOf(r)) : FlagsOf(r)[k] = "i",
                         m |-> \E k \in 1..Len(FlagsOf(r)) : FlagsOf(r)[k] = "m",
                         g |-> \E k \in 1..Len(FlagsOf(r)) : FlagsOf(r)[k] = "g"]

\* the text t without its space characters
Despace(t) == SelectSeq(t, LAMBDA c : c # " ")

\* C16: with option atom 'word' a pattern with spaces outside character
\* classes still parses: the spaces are removed wherever they occur (between
\* words, before a quantifier, before '|' or ')', at the end) and no node of
\* the tree represents a space.  Stated of the patterns without classes and
\* escapes that parse once their spaces are taken out.
C16_WordModeRemovesSpaces ==
  (/\ pc = "parsed"
   /\ options = "word"
   /\ \E k \in 1..Len(r) : r[k] = " "
   /\ \A k \in 1..Len(r) : r[k] \notin {"[", "\\", "\n", "\r"}
   /\ regexp_parse(Despace(r), "word").status = "returned")
    => /\ Returned
       /\ \A n \in NodesOf(result.tree) :
            \A k \in 1..Len(n.data.str) : n.data.str[k] # " "

\* a text of identifier characters only
AllIdent(t) == t # <<>> /\ \A k \in 1..Len(t) : t[k] \in ident

\* an atom node with text d, without its identity
LeafShape(d) == <<S(d), <<>>>>

\* the atoms of a tree from left to right
Leaves(n) == SelectSeq(Walk(n), LAMBDA x : is_atom(x))

C18_ArityFixedByTag ==
  Returned =>
    \A n \in NodesOf(result.tree) :
      n.data.typ = "string" =>
        /\ n.data.str \in {<<"(">>, <<"[">>} => Len(n.kids) > 0
        /\ Len(n.kids) > 0 =>
             /\ n.data.str \in {<<"(">>, <<"(", "?", ":">>, <<"(", "?", "=">>,
                                <<"(", "?", "!">>} => Len(n.kids) = 1
             /\ n.data.str \in {<<",">>, <<"|">>, <<"-">>, <<"\\">>} => Len(n.kids) = 2
             /\ n.data.str \in {<<"{">>, <<"{", "?">>} => Len(n.kids) = 3

\* the identities of the nodes of a registry
IdsOf(groups) == {groups[k].id : k \in 1..Len(groups)}

\* C19: parsing the same input with the same options twice gives structurally
\* identical trees with match_groups() of equal length; each call starts with
\* an empty registry, and the registry of one call holds no node that another
\* call made.
C19_CallsShareNoState ==
  query.op = "parse_again" =>
    /\ query.again.status = result.status
    /\ Shape(query.again.tree) = Shape(result.tree)
    /\ Len(match_groups(query.again)) = Len(match_groups(result))
    /\ IdsOf(match_groups(query.again)) \cap IdsOf(match_groups(result)) = {}
    /\ \A k \in 1..Len(match_groups(query.again)) :
         /\ match_groups(query.again)[k].id >= result.next
         /\ match_groups(query.again)[k].id < query.again.next

\* a pattern with a capturing group has been parsed twice
C19_Witness ==
  /\ query.op = "parse_again"
  /\ result.status = "returned"
  /\ Len(match_groups(result)) > 0
  /\ Len(match_groups(query.again)) > 0

\* the position of the first '}' of t at or after k, 0 when there is none
NextBrace(t, k) ==
  LET at == {j \in k..Len(t) : t[j] = "}"}
  IN IF at = {} THEN 0 ELSE CHOOSE j \in at : \A x \in at : j <= x

RECURSIVE WellPlaced(_, _, _, _)
\* a reading of the pattern text t from position k on: every quantifier stands
\* after something it can quantify (prev = "atom"), a '?' may also stand after
\* '*', '+' or '}' (prev = "quant"), and nothing may follow that '?' or a bare
\* '?' (prev = "done") but the next term.  Escaped characters and the members
\* of classes are skipped; cls says that the reading is inside a class.
WellPlaced(t, k, prev, cls) ==
  IF k > Len(t) THEN TRUE
  ELSE IF t[k] = "\\" THEN WellPlaced(t, k + 2, "atom", cls)
  ELSE IF cls THEN WellPlaced(t, k + 1, "atom", t[k] # "]")
  ELSE IF t[k] = "[" THEN WellPlaced(t, k + 1, "atom", TRUE)
  ELSE IF t[k] = "|" THEN WellPlaced(t, k + 1, "none", FALSE)
  ELSE IF t[k] \in {"*", "+"} THEN prev = "atom" /\ WellPlaced(t, k + 1, "quant", FALSE)
  ELSE IF t[k] = "{"
    THEN /\ prev = "atom"
         /\ NextBrace(t, k) > 0
         /\ DenotedLimits(SubSeq(t, k, NextBrace(t, k))) # <<>>
         /\ WellPlaced(t, NextBrace(t, k) + 1, "quant", FALSE)
  ELSE IF t[k] = "?" THEN prev \in {"atom", "quant"} /\ WellPlaced(t, k + 1, "done", FALSE)
  ELSE WellPlaced(t, k + 1, "atom", FALSE)

\* the tag of the node a quantifier suffix makes: its first character, and a
\* '?' when the suffix ends with the non-greedy marker
TagOf(q) == <<q[1]>> \o (IF Len(q) >= 2 /\ q[Len(q)] = "?" THEN <<"?">> ELSE <<>>)

\* C20: a term takes at most one quantifier suffix; '*', '+' and '{...}' may
\* be followed by one '?', which is appended to the tag of the node, but a
\* bare '?' may not: "a??" fails to parse, and so do stacked quantifiers such
\* as "a**" and a quantifier with no atom before it such as "*a".
C20_AtMostOneQuantifierPerTerm ==
  pc = "parsed" =>
    /\ Returned => WellPlaced(result.s, 1, "none", FALSE)
    /\ r \in {<<"a", "?", "?">>, <<"a", "*", "*">>, <<"*", "a">>} => result.status = "Error"
    /\ (Returned /\ AtomEnd(result.s, result.tree) > 0) =>
         result.tree.data.str = TagOf(SuffixOf(result.s, result.tree))
    /\ Returned =>
         \A n \in NodesOf(result.tree) :
           IsQuantifierNode(n) =>
             n.data.str \in {<<"+">>, <<"*">>, <<"?">>, <<"{">>,
                             <<"+", "?">>, <<"*", "?">>, <<"{", "?">>}

\* "a??" has been parsed and the parse has raised the error
C20_Witness ==
  pc = "parsed" /\ r = <<"a", "?", "?">> /\ result.status = "Error"

\* the capturing groups nested inside node g
NestedGroups(g) ==
  LET w == Walk(g) IN {w[q] : q \in {p \in 1..(Len(w) - 1) : IsGroupNode(w[p])}}

\* C21: during one parse the group registry only grows.  Every entry is a
\* completed capturing-group node, the entries stand in the order in which
\* their nodes were made, every group nested inside an entry stands before it,
\* and a scan that starts from a registry keeps that registry as a prefix of
\* the one it leaves.
C21_RegistryOnlyGrows ==
  (pc = "parsed" /\ query.op = "none") =>
    LET reg  == result.groups
        more == toplevel([s |-> result.s, atom |-> options], 0, HeapAfter(result))
    IN /\ \A k \in 1..Len(reg) :
            /\ IsGroupNode(reg[k])
            /\ \A j \in 1..(k - 1) : reg[j].id < reg[k].id
            /\ \A d \in NestedGroups(reg[k]) : \E j \in 1..(k - 1) : reg[j] = d
       /\ Len(more.h.groups) >= Len(reg)
       /\ SubSeq(more.h.groups, 1, Len(reg)) = reg

\* a parse has registered a group that encloses another one, and a scan from
\* its registry has added entries
C21_Witness ==
  /\ pc = "parsed" /\ query.op = "none"
  /\ \E k \in 1..Len(result.groups) : NestedGroups(result.groups[k]) # {}
  /\ Len(toplevel([s |-> result.s, atom |-> options], 0, HeapAfter(result)).h.groups)
       > Len(result.groups)

\* C22: a failed combinator application leaves no residue.  A rule that fails
\* at the start of the pattern text, after some of its parts have matched,
\* leaves the registry as it found it, and the registry of a returned parse
\* holds no node of a sub-result that was discarded and parsed again: every
\* entry is a node of the returned tree.
C22_FailedAttemptLeavesNoResidue ==
  pc = "parsed" =>
    LET e == [s |-> result.s, atom |-> options]
    IN /\ \A a \in {forgetful_group(e, 0, NewHeap), toplevel(e, 0, NewHeap)} :
            ~a.ok => a.h.groups = NewHeap.groups
       /\ Returned =>
            \A k \in 1..Len(result.groups) : result.groups[k] \in NodesOf(result.tree)

\* C23: the child links of a tree the parser has built, the link from a
\* backreference to its group included, form no cycle.  Every node was made
\* after all the nodes under it; the node a backreference links to is an entry
\* of the registry that was complete before the backreference was made, and
\* the backreference is not a node of it.
C23_LinksFormNoCycle ==
  Returned =>
    \A n \in NodesOf(result.tree) :
      /\ \A k \in 1..Len(n.kids) : IsUndefined(n.kids[k]) \/ n.kids[k].id < n.id
      /\ (IsBackreferenceNode(n) /\ ~IsUndefined(n.kids[2])) =>
           /\ \E k \in 1..Len(result.groups) : result.groups[k] = n.kids[2]
           /\ \A d \in NodesOf(n.kids[2]) : d.id < n.kids[1].id
           /\ n \notin NodesOf(n.kids[2])

\* a backreference written inside a capturing group has been linked to a group
C23_Witness ==
  /\ Returned
  /\ \E g \in NodesOf(result.tree) :
       /\ IsGroupNode(g)
       /\ \E b \in NodesOf(g.kids[1]) : IsBackreferenceNode(b) /\ IsGroupNode(b.kids[2])

IsBinary(n, d) == ~IsUndefined(n) /\ Len(n.kids) = 2 /\ n.data = S(<<d>>)

Pair(d, a, b) == <<S(<<d>>), <<a, b>>>>

MembersOf(t) ==
  LET from == IF Len(t) >= 2 /\ t[2] = "^" THEN 3 ELSE 2
      m    == SubSeq(t, from, Len(t) - 1)
  IN IF /\ Len(t) >= 3 /\ t[1] = "[" /\ t[Len(t)] = "]"
        /\ \A k \in 1..Len(m) : m[k] \notin {"[", "]", "\\"}
       THEN m ELSE <<>>

RECURSIVE ClassBody(_, _)
\* the members m from position k on, combined to the right: a '-' between
\* two characters makes a range of them, any other character is a literal
ClassBody(m, k) ==
  LET range == k + 2 <= Len(m) /\ m[k + 1] = "-"
      item  == IF range THEN Pair("-", LeafShape(<<m[k]>>), LeafShape(<<m[k + 2]>>))
               ELSE LeafShape(<<m[k]>>)
      next  == IF range THEN k + 3 ELSE k + 1
  IN IF next > Len(m) THEN item ELSE Pair(",", item, ClassBody(m, next))

\* C25: inside a character class a '-' between two characters forms a binary
\* range node that binds tighter than the concatenation of the members, a '-'
\* that is not between two members is a literal, and the members are combined
\* to the right: "[a-z]" is a class with the one range a-z, "[^a-z]" a negated
\* class with the same range, "[a-zABC]" is ,(a-z, ,(A, ,(B, C))) and "[-abc]"
\* a class whose first member is the literal '-'.
C25_ClassMembersAndRanges ==
  (pc = "parsed" /\ MembersOf(r) # <<>>) =>
    /\ Returned
    /\ Shape(result.tree)
         = <<S(IF r[2] = "^" THEN <<"[", "^">> ELSE <<"[">>), <<ClassBody(MembersOf(r), 1)>>>>

NonGreedy(q) == Len(q) >= 2 /\ q[Len(q)] = "?"

\* C26: toString of a node made by a quantifier suffix is the text of the body
\* followed by a quantifier with the same bounds and the same greediness as
\* the parsed one; a non-greedy quantifier (*?, +?, {m}?, {m,}?, {m,n}?) is
\* written with its trailing '?'.
C26_ToStringKeepsBoundsAndGreediness ==
  (/\ query.op = "toString"
   /\ query.node = result.tree
   /\ AtomEnd(result.s, result.tree) > 0) =>
    LET q   == SuffixOf(result.s, result.tree)
        out == query.value.s
    IN /\ query.value.t = "string"
       /\ DenotedLimits(q) # <<>>
       /\ \E j \in 1..Len(out) :
            /\ String(SubSeq(out, 1, j - 1)) = toString(QuantifiedAtom(result.tree))
            /\ DenotedLimits(SubSeq(out, j, Len(out))) = DenotedLimits(q)
            /\ NonGreedy(SubSeq(out, j, Len(out))) <=> NonGreedy(q)

(***************************************************************************)
(* The combinator any(n) on its own: a pattern text s, held in r, a width  *)
(* n and a cursor i, and one application any(n)({i: i}).                   *)
(***************************************************************************)
MaxWidth == 2

AnyInit ==
  /\ r \in ShortTexts
  /\ options = "character"
  /\ pc = "any"
  /\ result = NoResult
  /\ query = NoQuery

\* any(n)(p) for a width n and a cursor p.i within the text or at its end
ApplyAny ==
  /\ pc = "any"
  /\ query.op = "none"
  /\ \E n \in 0..MaxWidth, i \in 0..Len(r) :
       query' = [op |-> "any", n |-> n, at |-> i, out |-> any(n, r, i)]
  /\ UNCHANGED <<r, options, pc, result>>

AnySpec == AnyInit /\ [][ApplyAny]_vars

IsClassNode(n) == is_character_class(n) /\ Len(n.kids) = 1

\* C28: inside a character class an unescaped ']' always ends the class: no
\* member of a class of a returned tree, neither a single character nor an
\* endpoint of a range, has the text ']'; the escaped pair \] has the text
\* '\]'.
C28_UnescapedBracketEndsTheClass ==
  Returned =>
    \A c \in NodesOf(result.tree) :
      IsClassNode(c) =>
        \A m \in NodesOf(c.kids[1]) : Len(m.kids) = 0 => m.data.str # <<"]">>

====
